---- MODULE Spec2Model ----
(***************************************************************************)
(* Confirmation-race protocol of the partner consignment bot.              *)
(*                                                                         *)
(* One order is fanned out to sellers as Discord messages with a Confirm   *)
(* and a Deny button (POST /offers); a click is resolved against the       *)
(* Airtable store (Sales, Inventory, Orders, Offer Messages tables) and    *)
(* the outstanding messages of the order are disabled.                     *)
(*                                                                         *)
(* The store calls and the Discord calls are translated from lib/airtable  *)
(* and lib/discord; every await of a handler is a step of its own, so that *)
(* handlers interleave exactly where the event loop lets them.  The        *)
(* in-process guard and the sale-exists branch of the click handler are    *)
(* not in the sources at hand: they follow section 4.5 of the              *)
(* specification and call hasSaleForOrder and setOrderMatchedStatus of     *)
(* lib/airtable.                                                           *)
(***************************************************************************)
EXTENDS Integers, Naturals, Sequences, FiniteSets, TLC

----------------------------------------------------------------------------
(* Bounds of the model *)

\* number of click events delivered in one behaviour
MaxClicks == 2

\* number of upstream calls (store or Discord) that fail in one behaviour
MaxFaults == 1

\* number of POST /offers requests in one behaviour
MaxDispatches == 2

\* number of process restarts in one behaviour
MaxRestarts == 1

\* number of POST /disable-offers requests for one order in one behaviour
MaxCloses == 2

\* length of an id carried by a button identifier, in characters
MaxFieldLen == 2

\* number of channel resolutions in one behaviour
MaxResolves == 3

----------------------------------------------------------------------------
(* Inputs *)

Orders == {"o1", "o2"}

Sellers == {"s1", "s2"}

Replicas == {"r1", "r2"}

\* the inventory record offered by a seller (inventoryRecordId of the payload)
UnitOf == [s \in Sellers |-> IF s = "s1" THEN "u1" ELSE "u2"]

Units == {UnitOf[s] : s \in Sellers}

\* prices in hundredths of a cent: s1 asks 90.00 (below the ceiling of 100.00),
\* s2 asks 110.0050 (above it, and not a whole number of cents)
Suggested == [s \in Sellers |-> IF s = "s1" THEN 900000 ELSE 1100050]

AdjustedMax == [s \in Sellers |-> 1000000]

\* Inventory.Quantity before any click
InitialQuantity == [u \in Units |-> IF u = "u1" THEN 2 ELSE 0]

\* the seller lists a POST /offers body may carry
SellerLists == {<<"s1", "s2">>, <<"s2">>, <<>>}

\* a click not yet delivered.  rep is the process that gets it, born the number
\* of restarts that process had had, pc is the handler's position, path the branch it
\* took, failedAt the call whose error ended it, qtyRead the quantity read from
\* the Inventory record, batch the registry entries it listed, pending those
\* whose disabling has not settled, tried the locations it called
\* disableMessageButtonsGateway on
NoClick == [pc |-> "new", action |-> "none", orderRecId |-> "none",
            sellerId |-> "none", inventoryRecordId |-> "none", offerPrice |-> 0,
            channelId |-> <<>>, messageId |-> <<>>, rep |-> "none", born |-> 0,
            path |-> "none",
            failedAt |-> "none", committed |-> FALSE, qtyRead |-> 0,
            listed |-> FALSE, batch |-> {}, pending |-> {}, tried |-> {}]

\* no POST /offers answered yet.  asked counts the sellers of the request,
\* threw those whose sendOfferMessageGateway failed, posted, logged and
\* logFailed the messages posted, the registry rows written and the registry
\* writes that failed during the request
NoResponse == [status |-> 0, sentCount |-> 0, sent |-> <<>>,
               asked |-> 0, threw |-> 0,
               posted |-> 0, logged |-> 0, logFailed |-> 0]

\* no POST /disable-offers answered yet.  calls counts the requests for the
\* order, disabled is msgs.length of the answer, failed counts the deactivation
\* calls of the request that failed
NoClose == [calls |-> 0, status |-> 0, disabled |-> 0, failed |-> 0]

\* the process has not started: no configuration read, no guild seen
NoGuild == [stage |-> "none"]

\* the reasons a POST /disable-offers body may carry
Reasons == {"Closed", "Processed External"}

\* no button identifier built yet
NoToken == [stage |-> "none"]

\* no price decided yet
NoQuote == [stage |-> "none"]

\* the order ids a request may carry: "" stands for a body without one
OrderIds == Orders \cup {""}

----------------------------------------------------------------------------
(* State *)

VARIABLES
    sales,        \* rows of the Sales table
    quantity,     \* Inventory.Quantity of every inventory record
    orderStatus,  \* Fulfillment Status of every order
    offerMsgs,    \* rows of the Offer Messages table (the message registry)
    discord,      \* the messages posted on Discord, by message id
    processing,   \* per process: the order ids whose Confirm click is in progress
    clicks,       \* the click events and the position of their handlers
    faults,       \* upstream calls that failed so far, by collaborator
    restarts,     \* restarts of every process so far
    dispatches,   \* POST /offers requests so far
    response,     \* what the last POST /offers for an order id answered
    token,        \* a button identifier on its way from the message to the handler
    quote,        \* the price decision of sendOfferMessageGateway for one seller
    closed,       \* what the last POST /disable-offers for an order answered
    guild         \* the channels of the Discord guild and the resolutions made

vars == <<sales, quantity, orderStatus, offerMsgs, discord, processing, clicks,
          faults, restarts, dispatches, response, token, quote, closed, guild>>

store == <<sales, quantity, orderStatus, offerMsgs>>

Init ==
    /\ sales = {}
    /\ quantity = InitialQuantity
    /\ orderStatus = [o \in Orders |-> "Open"]
    /\ offerMsgs = {}
    /\ discord = <<>>
    /\ processing = [r \in Replicas |-> {}]
    /\ clicks = [c \in 1..MaxClicks |-> NoClick]
    /\ faults = [store |-> 0, discord |-> 0]
    /\ restarts = [r \in Replicas |-> 0]
    /\ dispatches = 0
    /\ response = [o \in OrderIds |-> NoResponse]
    /\ token = NoToken
    /\ quote = NoQuote
    /\ closed = [o \in Orders |-> NoClose]
    /\ guild = NoGuild

----------------------------------------------------------------------------
(* lib/airtable: the record store *)

\* Math.round(n * 100) / 100, on hundredths of a cent
round2(n) == ((n + 50) \div 100) * 100

\* the Sales rows linked to an order
SalesFor(o) == {row \in sales : row.orderRecId = o}

\* the read with a formula that matches no row
hasSaleForOrder_never(o) == FALSE

\* GET Sales?maxRecords=1&filterByFormula=FIND(order, ARRAYJOIN({Order Number}))
hasSaleForOrder(o) == SalesFor(o) # {}

\* the read that stops at the first row
listOfferMessagesForOrder_first(o) ==
    LET all == {[channelId |-> row.channelId, messageId |-> row.messageId] :
                    row \in {x \in offerMsgs : x.orderRecId = o}}
    IN  IF all = {} THEN {} ELSE {CHOOSE e \in all : TRUE}

\* the read without its filter: the rows of every order
listOfferMessagesForOrder_unfiltered(o) ==
    {[channelId |-> row.channelId, messageId |-> row.messageId] : row \in offerMsgs}

\* GET Offer Messages?filterByFormula={Order Record ID}='order': the
\* (channelId, messageId) pairs of the rows that carry both, without duplicates
listOfferMessagesForOrder(o) ==
    {[channelId |-> row.channelId, messageId |-> row.messageId] :
        row \in {x \in offerMsgs : /\ x.orderRecId = o
                                    /\ x.channelId # <<>>
                                    /\ x.messageId # <<>>}}

\* the write that is dropped without an error
logOfferMessage_dropped(rows, o, chan, mid) == rows

\* the write that keeps one row per order
logOfferMessage_upsert(rows, o, chan, mid) ==
    {row \in rows : row.orderRecId # o}
        \cup {[orderRecId |-> o, channelId |-> chan, messageId |-> mid]}

\* the write with the two ids in each other's place
logOfferMessage_swapped(rows, o, chan, mid) ==
    rows \cup {[orderRecId |-> o, channelId |-> mid, messageId |-> chan]}

\* POST Offer Messages: one row per posted message
logOfferMessage(rows, o, chan, mid) ==
    rows \cup {[orderRecId |-> o, channelId |-> chan, messageId |-> mid]}

\* the Sales row createSaleAndDecrement posts; id is the record id the store gives it
SaleRow(id, o, u, price) ==
    [id |-> id, orderRecId |-> o, inventoryRecordId |-> u, finalPrice |-> round2(price)]

\* the quantity written back as it was read
DecrementedQty_kept(q) == q

\* qty - 1 without the floor at zero
DecrementedQty_unclamped(q) == q - 1

\* Math.max(0, qty - 1) on the quantity read at the start of the call
DecrementedQty(q) == IF q > 0 THEN q - 1 ELSE 0

----------------------------------------------------------------------------
(* lib/discord: channels and messages *)

\* suggested <= adjustedMax, both numbers
confirmCase(s) == Suggested[s] <= AdjustedMax[s]

\* the channel of a seller for a kind of message: the sub-channel named for the
\* kind under the seller's category
getChannelIdForSeller(s, kind) == <<s, kind>>

\* the message sendOfferMessageGateway posts for a seller of an order; both
\* buttons carry action|orderRecId|sellerId|inventoryRecordId|offerPrice
OfferMessage(o, s) ==
    LET kind == IF confirmCase(s) THEN "confirm" ELSE "offer"
    IN  [orderRecId |-> o, sellerId |-> s, inventoryRecordId |-> UnitOf[s],
         offerPrice |-> round2(IF confirmCase(s) THEN Suggested[s] ELSE AdjustedMax[s]),
         channelId |-> getChannelIdForSeller(s, kind),
         disabled |-> FALSE, note |-> "none"]

\* the id Discord gives the next message for seller s of order o
NewMessageId(msgs, o, s) ==
    <<o, s, Cardinality({m \in DOMAIN msgs : msgs[m].orderRecId = o /\ msgs[m].sellerId = s})>>

\* the edit that flips the buttons instead of disabling them
disableMessageButtonsGateway_toggle(msgs, chan, mid, note) ==
    IF mid \in DOMAIN msgs /\ msgs[mid].channelId = chan
    THEN [msgs EXCEPT ![mid].disabled = ~msgs[mid].disabled, ![mid].note = note]
    ELSE msgs

\* PATCH channels/{channelId}/messages/{messageId}: both buttons disabled, the
\* note as content; a message the channel does not hold is not found
disableMessageButtonsGateway(msgs, chan, mid, note) ==
    IF mid \in DOMAIN msgs /\ msgs[mid].channelId = chan
    THEN [msgs EXCEPT ![mid].disabled = TRUE, ![mid].note = note]
    ELSE msgs

\* the annotation of a clicked message whose order is being processed: the
\* content changes, the buttons stay
annotateMessage(msgs, chan, mid, note) ==
    IF mid \in DOMAIN msgs /\ msgs[mid].channelId = chan
    THEN [msgs EXCEPT ![mid].note = note]
    ELSE msgs

----------------------------------------------------------------------------
(* lib/discord: the button identifier *)

\* a JavaScript number is Num(n), n counting hundredths of a cent, or NaN
Num(n) == [num |-> n]

NaN == [nan |-> TRUE]

IsNum(x) == DOMAIN x = {"num"}

\* strings are sequences of characters
DigitChars == <<"0", "1", "2", "3", "4", "5", "6", "7", "8", "9">>

IsDigit(ch) == \E d \in DOMAIN DigitChars : DigitChars[d] = ch

DigitValue(ch) == (CHOOSE d \in DOMAIN DigitChars : DigitChars[d] = ch) - 1

\* the decimal digits of a natural number
RECURSIVE Digits(_)
Digits(k) == IF k < 10 THEN <<DigitChars[k + 1]>>
             ELSE Digits(k \div 10) \o <<DigitChars[(k % 10) + 1]>>

\* a string without its trailing zeros
RECURSIVE StripZeros(_)
StripZeros(s) == IF s # <<>> /\ s[Len(s)] = "0" THEN StripZeros(SubSeq(s, 1, Len(s) - 1))
                 ELSE s

\* `${offerPrice}`: the shortest decimal text of the number
NumToStr(x) ==
    IF ~IsNum(x) THEN <<"N", "a", "N">>
    ELSE LET whole == x.num \div 10000
             part == x.num % 10000
             four == <<DigitChars[(part \div 1000) + 1], DigitChars[((part \div 100) % 10) + 1],
                       DigitChars[((part \div 10) % 10) + 1], DigitChars[(part % 10) + 1]>>
         IN  Digits(whole) \o (IF part = 0 THEN <<>> ELSE <<".">> \o StripZeros(four))

\* the value of a string of digits
RECURSIVE DigitsValue(_)
DigitsValue(s) == IF s = <<>> THEN 0
                  ELSE DigitsValue(SubSeq(s, 1, Len(s) - 1)) * 10 + DigitValue(s[Len(s)])

\* a string of one to four decimals as hundredths of a cent
RECURSIVE Decimals(_)
Decimals(s) == IF Len(s) >= 4 THEN DigitsValue(SubSeq(s, 1, 4)) ELSE Decimals(s \o <<"0">>)

AllDigits(s) == \A i \in DOMAIN s : IsDigit(s[i])

\* parseInt(text): the digits before the first other character
ParseNum_int(s) ==
    LET stop == {i \in DOMAIN s : ~IsDigit(s[i])}
        upto == IF stop = {} THEN Len(s) ELSE (CHOOSE i \in stop : \A j \in stop : i <= j) - 1
    IN  IF upto = 0 THEN NaN ELSE Num(DigitsValue(SubSeq(s, 1, upto)) * 10000)

\* Number(text): the empty string is 0, digits with at most one point are the
\* number they spell, everything else is NaN
ParseNum(s) ==
    LET dots == {i \in DOMAIN s : s[i] = "."}
    IN  IF s = <<>> THEN Num(0)
        ELSE IF dots = {} THEN (IF AllDigits(s) THEN Num(DigitsValue(s) * 10000) ELSE NaN)
        ELSE IF Cardinality(dots) > 1 \/ Len(s) = 1 THEN NaN
        ELSE LET dot == CHOOSE i \in dots : TRUE
                 whole == SubSeq(s, 1, dot - 1)
                 part == SubSeq(s, dot + 1, Len(s))
             IN  IF AllDigits(whole) /\ AllDigits(part) /\ Len(part) <= 4
                 THEN Num(DigitsValue(whole) * 10000
                            + (IF part = <<>> THEN 0 ELSE Decimals(part)))
                 ELSE NaN

\* text.split("|")
RECURSIVE Split(_)
Split(s) ==
    LET bars == {i \in DOMAIN s : s[i] = "|"}
    IN  IF bars = {} THEN <<s>>
        ELSE LET bar == CHOOSE i \in bars : \A j \in bars : i <= j
             IN  <<SubSeq(s, 1, bar - 1)>> \o Split(SubSeq(s, bar + 1, Len(s)))

\* what a destructured array element is when the array is too short
Undefined == <<"undefined">>

\* custom_id: `${action}|${orderRecId}|${sellerId}|${inventoryRecordId}|${offerPrice}`
Encode(f) ==
    f.action \o <<"|">> \o f.orderRecId \o <<"|">> \o f.sellerId \o <<"|">>
        \o f.inventoryRecordId \o <<"|">> \o NumToStr(f.offerPrice)

\* the first five parts of the split identifier, the fifth through Number()
Decode(id) ==
    LET parts == Split(id)
        Part(i) == IF i <= Len(parts) THEN parts[i] ELSE Undefined
    IN  [action |-> Part(1), orderRecId |-> Part(2), sellerId |-> Part(3),
         inventoryRecordId |-> Part(4),
         offerPrice |-> IF Len(parts) >= 5 THEN ParseNum(parts[5]) ELSE NaN]

\* the branch the handler takes on the decoded action
Branch(d) == IF d.action = <<"confirm">> THEN "confirm"
             ELSE IF d.action = <<"deny">> THEN "deny"
             ELSE "none"

\* the ids a payload may carry: one to MaxFieldLen characters, "|" among them
FieldStrings ==
    UNION {[1..n -> {"a", "|"}] : n \in 1..MaxFieldLen}

\* the prices a button may carry: 0, 0.0005, 82.6446, 90, 90.05, 90.5, 1000, NaN
TokenPrices ==
    {Num(0), Num(5), Num(826446), Num(900000), Num(900500), Num(905000),
     Num(10000000), NaN}

\* the fields sendOfferMessageGateway puts into a button
TokenFields ==
    [action : {<<"confirm">>, <<"deny">>}, orderRecId : FieldStrings,
     sellerId : FieldStrings, inventoryRecordId : FieldStrings, offerPrice : TokenPrices]

\* sendOfferMessageGateway builds the custom_id of a button
BuildToken(f) ==
    /\ token.stage = "none"
    /\ token' = [stage |-> "posted", fields |-> f, customId |-> Encode(f)]
    /\ UNCHANGED <<store, discord, processing, clicks, faults, restarts, dispatches,
                   response, quote, closed, guild>>

\* onButtonInteraction splits the custom_id of the clicked button
ReceiveToken ==
    /\ token.stage = "posted"
    /\ token' = [stage |-> "decoded", fields |-> token.fields, customId |-> token.customId,
                 decoded |-> Decode(token.customId)]
    /\ UNCHANGED <<store, discord, processing, clicks, faults, restarts, dispatches,
                   response, quote, closed, guild>>

\* the handler is called with the decoded fields and takes its branch
HandleToken ==
    /\ token.stage = "decoded"
    /\ token' = [stage |-> "handled", fields |-> token.fields, customId |-> token.customId,
                 decoded |-> token.decoded, branch |-> Branch(token.decoded)]
    /\ UNCHANGED <<store, discord, processing, clicks, faults, restarts, dispatches,
                   response, quote, closed, guild>>

\* normalizeVatOption: the Sales option for the VAT type of the inventory record
normalizeVatOption(x) ==
    IF x = "MARGIN" THEN "Margin"
    ELSE IF x = "VAT21" THEN "VAT21"
    ELSE IF x = "VAT0" THEN "VAT0"
    ELSE "Margin"

\* round2 of what the handler passes as finalPrice: (Number(n) || 0) makes NaN 0
round2Price(x) == IF IsNum(x) THEN Num(round2(x.num)) ELSE Num(0)

\* round2(finalPrice * 1.21), Math.round taking the half upwards
grossUp(x) == IF IsNum(x) THEN Num(((x.num * 121 + 5000) \div 10000) * 100) ELSE Num(0)

\* the Final Price and VAT Type createSaleAndDecrement writes on the Sales row
\* for the inventory record's VAT type and seller country
finalOut(invVat, sellerCountry, finalPrice) ==
    IF normalizeVatOption(invVat) = "VAT0" /\ sellerCountry \in {"Netherlands", "The Netherlands"}
    THEN [vatType |-> "VAT21", finalPrice |-> grossUp(finalPrice)]
    ELSE [vatType |-> normalizeVatOption(invVat), finalPrice |-> round2Price(finalPrice)]

\* the confirm branch passes the decoded offerPrice as finalPrice to
\* createSaleAndDecrement, which reads the inventory record and posts the Sales row
CommitToken(invVat, sellerCountry) ==
    /\ token.stage = "handled"
    /\ token.branch = "confirm"
    /\ token' = [stage |-> "sold", fields |-> token.fields, customId |-> token.customId,
                 decoded |-> token.decoded, branch |-> token.branch,
                 inventory |-> [vatType |-> invVat, sellerCountry |-> sellerCountry],
                 sale |-> finalOut(invVat, sellerCountry, token.decoded.offerPrice)]
    /\ UNCHANGED <<store, discord, processing, clicks, faults, restarts, dispatches,
                   response, quote, closed, guild>>

----------------------------------------------------------------------------
(* the price decision of sendOfferMessageGateway *)

\* a number: the double nearest to n / d cents when e = 0, the double next
\* below it when e = -1
Amount(n) == [n |-> n, d |-> 1, e |-> 0]

\* the value of a variable that holds no price
Null == [null |-> TRUE]

\* Number.isFinite
Finite(x) == DOMAIN x = {"n", "d", "e"}

\* the products and quotients of doubles that come out one unit in the last
\* place below the double nearest to the exact result:
\* 90 * (1 + 0.21) = 108.89999999999999 and 131.89 / (1 + 0.21) = 108.99999999999999
RoundedDown(x, p, q) ==
    <<x.n, x.d, p, q>> \in {<<9000, 1, 121, 100>>, <<13189, 1, 100, 121>>}

\* x * p / q in doubles, NaN staying NaN
Times(x, p, q) ==
    IF Finite(x)
    THEN [n |-> x.n * p, d |-> x.d * q, e |-> IF RoundedDown(x, p, q) THEN -1 ELSE x.e]
    ELSE NaN

\* x < y on numbers
LessEq_strict(x, y) ==
    /\ Finite(x) /\ Finite(y)
    /\ \/ x.n * y.d < y.n * x.d
       \/ x.n * y.d = y.n * x.d /\ x.e < y.e

\* x <= y on numbers; a comparison with NaN is false
LessEq(x, y) ==
    /\ Finite(x) /\ Finite(y)
    /\ \/ x.n * y.d < y.n * x.d
       \/ x.n * y.d = y.n * x.d /\ x.e <= y.e

\* pct: a rate given as 21 or as 0.21, here in percent
pct(x) == IF x > 1 THEN x ELSE x * 100

\* isNL: the country name contains "nether"
isNL(s) == s \in {"Netherlands", "The Netherlands"}

VatTypes == {"MARGIN", "VAT21", "VAT0", ""}

Countries == {"Netherlands", "Belgium", ""}

\* clientVatRate of the order: missing or 21
ClientVatRates == {0, 21}

\* suggested of a seller: missing, 80.00, 90.00, 100.00, 109.00, 110.00
Asks == {NaN, Amount(8000), Amount(9000), Amount(10000), Amount(10900), Amount(11000)}

\* max of the order: missing, 96.80, 100.00, 121.00, 131.89
Ceilings == {NaN, Amount(9680), Amount(10000), Amount(12100), Amount(13189)}

QuoteInputs ==
    [suggested : Asks, max : Ceilings, vatType : VatTypes, sellerCountry : Countries,
     clientCountry : Countries, clientVatRate : ClientVatRates]

\* VAT and decision logic: what is compared, the decision, the price offered,
\* the price shown as the seller's and the price put into the buttons
Decide(q) ==
    LET isVat0 == q.vatType = "VAT0"
        bothDutch == isNL(q.sellerCountry) /\ isNL(q.clientCountry)
        rate == pct(q.clientVatRate)
        sellerCompare == IF isVat0 /\ bothDutch THEN Times(q.suggested, 100 + rate, 100)
                         ELSE q.suggested
        orderMaxN == IF isVat0 /\ ~bothDutch THEN Times(q.max, 100, 100 + rate)
                     ELSE q.max
        confirms == LessEq(sellerCompare, orderMaxN)
        offerPrice == IF confirms THEN Null
                      ELSE IF isVat0 /\ ~bothDutch THEN Times(q.max, 100, 100 + rate)
                      ELSE q.max
    IN  [confirmCase |-> confirms,
         kind |-> IF confirms THEN "confirm" ELSE "offer",
         offerPrice |-> offerPrice,
         yourDisplay |-> IF isVat0 /\ bothDutch THEN Times(q.suggested, 100 + rate, 100)
                         ELSE q.suggested,
         buttonPrice |-> IF offerPrice = Null THEN Amount(0) ELSE offerPrice]

\* sendOfferMessageGateway decides on one seller's offer
SendQuote(q) ==
    /\ quote.stage = "none"
    /\ quote' = [stage |-> "decided", input |-> q, decision |-> Decide(q)]
    /\ UNCHANGED <<store, discord, processing, clicks, faults, restarts, dispatches,
                   response, token, closed, guild>>

----------------------------------------------------------------------------
(* lib/discord: the channel of a seller *)

\* sellerName || sellerId as the payload may spell it
SellerNames == {"Alice", " alice ", "Bob"}

\* String.trim
Trim(s) == IF s = " alice " THEN "alice" ELSE s

\* String.toLowerCase
ToLower(s) ==
    CASE s = "Alice" -> "alice"
      [] s = "ALICE" -> "alice"
      [] s = "Bob" -> "bob"
      [] OTHER -> s

\* DISCORD_CHANNEL_ID, the one channel used when no guild is configured
FallbackChannelId == 0

\* the environment of the process: DISCORD_GUILD_ID set, DISCORD_CHANNEL_ID set,
\* ALLOW_CHANNEL_CREATE = "true"
Configs == [guildId : BOOLEAN, fallback : BOOLEAN, allowCreate : BOOLEAN]

Category(id, name) == [id |-> id, type |-> 4, name |-> name, parent_id |-> 0]

TextChannel(id, name, parent) == [id |-> id, type |-> 0, name |-> name, parent_id |-> parent]

\* the guilds the process may find at its start: empty; a seller with both
\* channels under a category spelled in capitals; a seller's category without
\* channels beside another seller's; two categories of the same name
GuildLayouts ==
    {{},
     {Category(1, "ALICE"), TextChannel(2, "confirmation-requests", 1),
      TextChannel(3, "offer-requests", 1)},
     {Category(1, "Bob"), TextChannel(2, "confirmation-requests", 1), Category(3, "ALICE")},
     {Category(1, "alice"), Category(2, "Alice"), TextChannel(3, "confirmation-requests", 2)}}

\* the id Discord gives a created channel
NewChannelId(chans) ==
    IF chans = {} THEN 1
    ELSE 1 + (CHOOSE i \in {c.id : c \in chans} : \A c \in chans : c.id <= i)

\* Array.find: the first of the matching channels
First(found) == CHOOSE c \in found : \A d \in found : c.id <= d.id

\* the name of the sub-channel for a kind of message
TargetOf(kind) == IF kind = "confirm" THEN "confirmation-requests" ELSE "offer-requests"

\* the categories whose trimmed, lower-cased name is the wanted one
FindCategory(chans, wanted) ==
    {c \in chans : c.type = 4 /\ ToLower(Trim(c.name)) = ToLower(wanted)}

\* the text channels of any category that have the target name
FindChannel_anyParent(chans, categoryId, target) ==
    {c \in chans : c.type = 0 /\ c.name = target}

\* the categories under the category that have the target name
FindChannel_wrongType(chans, categoryId, target) ==
    {c \in chans : c.type = 4 /\ c.parent_id = categoryId /\ c.name = target}

\* the text channels under the category that have the target name
FindChannel(chans, categoryId, target) ==
    {c \in chans : c.type = 0 /\ c.parent_id = categoryId /\ c.name = target}

\* getChannelIdForSeller on a guild: the channel id returned or an error, and
\* the channels of the guild afterwards
ResolveChannel(cfg, chans, sellerNameOrId, kind) ==
    LET target == TargetOf(kind)
        wanted == Trim(sellerNameOrId)
        cats == FindCategory(chans, wanted)
        createdCat == Category(NewChannelId(chans), wanted)
        withCat == IF cats = {} THEN chans \cup {createdCat} ELSE chans
        categoryId == IF cats = {} THEN createdCat.id ELSE First(cats).id
        existing == FindChannel(chans, categoryId, target)
        created == TextChannel(NewChannelId(withCat), target, categoryId)
    IN  IF ~cfg.guildId
        THEN IF cfg.fallback
             THEN [outcome |-> "ok", channelId |-> FallbackChannelId, chans |-> chans]
             ELSE [outcome |-> "error", channelId |-> FallbackChannelId, chans |-> chans]
        ELSE IF cats = {} /\ ~cfg.allowCreate
        THEN [outcome |-> "error", channelId |-> FallbackChannelId, chans |-> chans]
        ELSE IF existing # {}
        THEN [outcome |-> "ok", channelId |-> First(existing).id, chans |-> withCat]
        ELSE IF cfg.allowCreate
        THEN [outcome |-> "ok", channelId |-> created.id, chans |-> withCat \cup {created}]
        ELSE [outcome |-> "error", channelId |-> FallbackChannelId, chans |-> withCat]

\* the calls of getChannelIdForSeller that may be in flight at a time, one per
\* request being served
Resolvers == {1, 2}

\* no call in flight
Idle == [pc |-> "idle"]

\* the process starts with its environment and finds the guild as it is
StartGateway(cfg, chans) ==
    /\ guild.stage = "none"
    /\ guild' = [stage |-> "ready", cfg |-> cfg, chans |-> chans, calls |-> <<>>,
                 inflight |-> [p \in Resolvers |-> Idle]]
    /\ UNCHANGED <<store, discord, processing, clicks, faults, restarts, dispatches,
                   response, token, quote, closed>>

\* sendOfferMessageGateway resolves the channel for the kind of its decision and
\* posts there
SendToSeller(name, confirms) ==
    LET kind == IF confirms THEN "confirm" ELSE "offer"
        r == ResolveChannel(guild.cfg, guild.chans, name, kind)
    IN  /\ guild.stage = "ready"
        /\ Len(guild.calls) < MaxResolves
        /\ guild' = [guild EXCEPT
                       !.chans = r.chans,
                       !.calls = Append(@, [seller |-> name, confirmCase |-> confirms,
                                            kind |-> kind, outcome |-> r.outcome,
                                            channelId |-> r.channelId,
                                            created |-> Cardinality(r.chans)
                                                          - Cardinality(guild.chans)])]
        /\ UNCHANGED <<store, discord, processing, clicks, faults, restarts, dispatches,
                       response, token, quote, closed>>

\* calls of getChannelIdForSeller started so far, returned or in flight
Resolutions ==
    Len(guild.calls) + Cardinality({p \in Resolvers : guild.inflight[p] # Idle})

\* the call p returns or throws: its record joins the calls
Returned(p, call, outcome, channelId, chans) ==
    guild' = [guild EXCEPT
                !.chans = chans,
                !.inflight[p] = Idle,
                !.calls = Append(@, [seller |-> call.seller, confirmCase |-> call.kind = "confirm",
                                     kind |-> call.kind, outcome |-> outcome,
                                     channelId |-> channelId, created |-> call.created])]

\* getChannelIdForSeller is called: without a guild it returns the fallback
\* channel or throws, with a guild it sends the request for the channel list
BeginResolve(p, name, kind) ==
    LET call == [pc |-> "list", seller |-> name, kind |-> kind, created |-> 0]
    IN  /\ guild.stage = "ready"
        /\ guild.inflight[p] = Idle
        /\ Resolutions < MaxResolves
        /\ IF ~guild.cfg.guildId
           THEN Returned(p, call, IF guild.cfg.fallback THEN "ok" ELSE "error",
                         FallbackChannelId, guild.chans)
           ELSE guild' = [guild EXCEPT !.inflight[p] = call]
        /\ UNCHANGED <<store, discord, processing, clicks, faults, restarts, dispatches,
                       response, token, quote, closed>>

\* after the category is known: the channel is looked up in the list the call
\* got, and is returned, or its creation is requested, or the call throws
AfterCategory(p, call, chans, categoryId) ==
    LET existing == FindChannel(call.chans, categoryId, TargetOf(call.kind))
    IN  IF existing # {} THEN Returned(p, call, "ok", First(existing).id, chans)
        ELSE IF guild.cfg.allowCreate
        THEN guild' = [guild EXCEPT !.chans = chans,
                                    !.inflight[p] = [call EXCEPT !.pc = "createChannel",
                                                                 !.categoryId = categoryId]]
        ELSE Returned(p, call, "error", FallbackChannelId, chans)

\* the channel list arrives: the category is found in it, or its creation is
\* requested, or the call throws
ListGuildChannels(p) ==
    LET call == [pc |-> "list", seller |-> guild.inflight[p].seller,
                 kind |-> guild.inflight[p].kind, created |-> 0,
                 chans |-> guild.chans, categoryId |-> 0]
        cats == FindCategory(call.chans, Trim(call.seller))
    IN  /\ guild.stage = "ready"
        /\ guild.inflight[p].pc = "list"
        /\ IF cats # {} THEN AfterCategory(p, call, guild.chans, First(cats).id)
           ELSE IF guild.cfg.allowCreate
           THEN guild' = [guild EXCEPT !.inflight[p] = [call EXCEPT !.pc = "createCategory"]]
           ELSE Returned(p, call, "error", FallbackChannelId, guild.chans)
        /\ UNCHANGED <<store, discord, processing, clicks, faults, restarts, dispatches,
                       response, token, quote, closed>>

\* createChannel({ name: wanted, type: 4 }) is answered: the guild has the new category
CreateCategory(p) ==
    LET call == guild.inflight[p]
        createdCat == Category(NewChannelId(guild.chans), Trim(call.seller))
    IN  /\ guild.stage = "ready"
        /\ call.pc = "createCategory"
        /\ AfterCategory(p, [call EXCEPT !.created = @ + 1], guild.chans \cup {createdCat},
                         createdCat.id)
        /\ UNCHANGED <<store, discord, processing, clicks, faults, restarts, dispatches,
                       response, token, quote, closed>>

\* createChannel({ name: target, type: 0, parent_id: categoryId }) is answered:
\* the guild has the new channel and the call returns its id
CreateTextChannel(p) ==
    LET call == guild.inflight[p]
        created == TextChannel(NewChannelId(guild.chans), TargetOf(call.kind), call.categoryId)
    IN  /\ guild.stage = "ready"
        /\ call.pc = "createChannel"
        /\ Returned(p, [call EXCEPT !.created = @ + 1], "ok", created.id,
                    guild.chans \cup {created})
        /\ UNCHANGED <<store, discord, processing, clicks, faults, restarts, dispatches,
                       response, token, quote, closed>>

----------------------------------------------------------------------------
(* upstream calls *)

Failed == faults.store + faults.discord

\* an upstream call answers: it succeeds, or fails while the budget lasts
Answers == {ok \in BOOLEAN : ok \/ Failed < MaxFaults}

\* the failure of a call to collaborator k is counted
Count(k, ok) == faults' = IF ok THEN faults ELSE [faults EXCEPT ![k] = @ + 1]

----------------------------------------------------------------------------
(* server: POST /offers *)

\* what can happen to one seller of the loop: the message is posted and logged
\* ("ok"), posted while the Offer Messages write fails ("logFail"), or
\* sendOfferMessageGateway throws on the channel ("resolveFail") or on the
\* post ("postFail")
Outcomes == {"ok", "logFail", "resolveFail", "postFail"}

Thrown == {"resolveFail", "postFail"}

\* the for loop over the sellers from seller i on; acc carries the messages, the
\* registry rows and the results so far.  logOfferMessage swallows its own
\* error; an error of sendOfferMessageGateway leaves the loop for the catch
RECURSIVE OffersLoop(_, _, _, _, _)
OffersLoop(o, ss, out, i, acc) ==
    IF i > Len(ss) THEN acc
    ELSE IF out[i] \in Thrown THEN [acc EXCEPT !.threw = TRUE]
    ELSE
        LET msg == OfferMessage(o, ss[i])
            mid == NewMessageId(acc.discord, o, ss[i])
            rows == IF out[i] = "logFail" THEN acc.offerMsgs
                    ELSE logOfferMessage(acc.offerMsgs, o, msg.channelId, mid)
        IN  OffersLoop(o, ss, out, i + 1,
                [acc EXCEPT !.discord = (mid :> msg) @@ acc.discord,
                            !.offerMsgs = rows,
                            !.sent = Append(acc.sent, [sellerId |-> ss[i], messageId |-> mid])])

\* the validation that leaves out the order id
Rejected_sellersOnly(o, ss) == ss = <<>>

\* if (!orderRecId || sellers.length === 0): the request is rejected as a whole
Rejected(o, ss) == o = "" \/ ss = <<>>

\* the answer of POST /offers: 400 for a body without order id or sellers, 500
\* when a seller threw, else 200 with the sellers posted to
OffersResponse(o, ss, out, before, acc) ==
    [status |-> IF Rejected(o, ss) THEN 400 ELSE IF acc.threw THEN 500 ELSE 200,
     sentCount |-> IF acc.threw THEN 0 ELSE Len(acc.sent),
     sent |-> IF acc.threw THEN <<>> ELSE acc.sent,
     asked |-> Len(ss),
     threw |-> Cardinality({i \in DOMAIN out : out[i] \in Thrown}),
     posted |-> Cardinality(DOMAIN acc.discord) - Cardinality(DOMAIN before.discord),
     logged |-> Cardinality(acc.offerMsgs) - Cardinality(before.offerMsgs),
     logFailed |-> IF o = "" THEN 0 ELSE Cardinality({i \in DOMAIN out : out[i] = "logFail"})]

PostOffers(o, ss, out) ==
    /\ dispatches < MaxDispatches
    /\ Failed + Cardinality({i \in DOMAIN out : out[i] # "ok"}) <= MaxFaults
    /\ o = "" => \A i \in DOMAIN out : out[i] = "ok"
    /\ \A i, j \in DOMAIN out : i < j /\ out[i] \in Thrown => out[j] = "ok"
    /\ LET before == [discord |-> discord, offerMsgs |-> offerMsgs, sent |-> <<>>, threw |-> FALSE]
           acc == IF Rejected(o, ss) THEN before ELSE OffersLoop(o, ss, out, 1, before)
       IN  /\ discord' = acc.discord
           /\ offerMsgs' = acc.offerMsgs
           /\ response' = [response EXCEPT ![o] = OffersResponse(o, ss, out, before, acc)]
    /\ faults' = [store |-> faults.store + Cardinality({i \in DOMAIN out : out[i] = "logFail"}),
                  discord |-> faults.discord + Cardinality({i \in DOMAIN out : out[i] \in Thrown})]
    /\ dispatches' = dispatches + 1
    /\ UNCHANGED <<sales, quantity, orderStatus, processing, clicks, restarts, token, quote, closed, guild>>

----------------------------------------------------------------------------
(* server: the button handler *)

InFlight(c) == clicks[c].pc \notin {"new", "done", "killed"}

Finished(c) == clicks[c].pc \in {"done", "killed"}

\* the location a click came with
Clicked(c) == [channelId |-> clicks[c].channelId, messageId |-> clicks[c].messageId]

\* the guard of a click's process without the click's order
Released(c) ==
    [processing EXCEPT ![clicks[c].rep] = @ \ {clicks[c].orderRecId}]

\* the click built from what the process remembers of the message: nothing
\* after a restart
ClickOf_remembered(m, a, r) ==
    [NoClick EXCEPT !.action = a, !.orderRecId = discord[m].orderRecId,
                    !.sellerId = discord[m].sellerId,
                    !.inventoryRecordId = discord[m].inventoryRecordId,
                    !.offerPrice = IF restarts[r] = 0 THEN discord[m].offerPrice ELSE 0,
                    !.channelId = discord[m].channelId, !.messageId = m, !.rep = r,
                    !.born = restarts[r]]

\* the click as onButtonInteraction hands it to the handler: the fields of the
\* button's custom_id and the location of the clicked message
ClickOf(m, a, r) ==
    [NoClick EXCEPT !.action = a, !.orderRecId = discord[m].orderRecId,
                    !.sellerId = discord[m].sellerId,
                    !.inventoryRecordId = discord[m].inventoryRecordId,
                    !.offerPrice = discord[m].offerPrice,
                    !.channelId = discord[m].channelId, !.messageId = m, !.rep = r,
                    !.born = restarts[r]]

\* clicks are numbered in the order they arrive; only an enabled button is clicked
Arrives(c, m) ==
    /\ clicks[c].pc = "new"
    /\ \A d \in 1..MaxClicks : d < c => clicks[d].pc # "new"
    /\ m \in DOMAIN discord
    /\ ~discord[m].disabled

\* a Deny click that disables every registered message of the order
DenyClick_all(c, m, r, ok) ==
    /\ Arrives(c, m)
    /\ LET k == ClickOf(m, "deny", r)
           all == listOfferMessagesForOrder(k.orderRecId)
       IN  /\ clicks' = [clicks EXCEPT ![c] = [k EXCEPT !.pc = "done", !.path = "deny",
                                 !.tried = all,
                                 !.failedAt = IF ok THEN "none" ELSE "disableClicked"]]
           /\ discord' = IF ok
                         THEN [x \in DOMAIN discord |->
                                IF [channelId |-> discord[x].channelId, messageId |-> x] \in all
                                THEN [discord[x] EXCEPT !.disabled = TRUE, !.note = "denied"]
                                ELSE discord[x]]
                         ELSE discord
    /\ Count("discord", ok)
    /\ UNCHANGED <<store, processing, restarts, dispatches, response, token, quote, closed, guild>>

\* a Deny click that gives back the guard of its order
DenyClick_releases(c, m, r, ok) ==
    /\ Arrives(c, m)
    /\ LET k == ClickOf(m, "deny", r)
           at == [channelId |-> k.channelId, messageId |-> k.messageId]
       IN  /\ clicks' = [clicks EXCEPT ![c] = [k EXCEPT !.pc = "done", !.path = "deny",
                                 !.tried = {at},
                                 !.failedAt = IF ok THEN "none" ELSE "disableClicked"]]
           /\ discord' = IF ok THEN disableMessageButtonsGateway(discord, k.channelId, k.messageId, "denied")
                         ELSE discord
           /\ processing' = [processing EXCEPT ![r] = @ \ {k.orderRecId}]
    /\ Count("discord", ok)
    /\ UNCHANGED <<store, restarts, dispatches, response, token, quote, closed, guild>>

\* a Deny click: the clicked message alone is disabled; an error is logged
DenyClick(c, m, r, ok) ==
    /\ Arrives(c, m)
    /\ LET k == ClickOf(m, "deny", r)
           at == [channelId |-> k.channelId, messageId |-> k.messageId]
       IN  /\ clicks' = [clicks EXCEPT ![c] = [k EXCEPT !.pc = "done", !.path = "deny",
                                 !.tried = {at},
                                 !.failedAt = IF ok THEN "none" ELSE "disableClicked"]]
           /\ discord' = IF ok THEN disableMessageButtonsGateway(discord, k.channelId, k.messageId, "denied")
                         ELSE discord
    /\ Count("discord", ok)
    /\ UNCHANGED <<store, processing, restarts, dispatches, response, token, quote, closed, guild>>

\* a Confirm click whose order is being processed in the same process: the
\* clicked message is annotated and nothing else happens
ConfirmWhileProcessing(c, m, r, ok) ==
    /\ Arrives(c, m)
    /\ discord[m].orderRecId \in processing[r]
    /\ LET k == ClickOf(m, "confirm", r)
       IN  /\ clicks' = [clicks EXCEPT ![c] = [k EXCEPT !.pc = "done", !.path = "loser",
                                 !.failedAt = IF ok THEN "none" ELSE "annotate"]]
           /\ discord' = IF ok THEN annotateMessage(discord, k.channelId, k.messageId, "processing")
                         ELSE discord
    /\ Count("discord", ok)
    /\ UNCHANGED <<store, processing, restarts, dispatches, response, token, quote, closed, guild>>

\* a Confirm click that goes on whether or not the guard is held
ConfirmAcquire_unguarded(c, m, r) ==
    /\ Arrives(c, m)
    /\ clicks' = [clicks EXCEPT ![c] = [ClickOf(m, "confirm", r) EXCEPT !.pc = "check"]]
    /\ processing' = [processing EXCEPT ![r] = @ \cup {discord[m].orderRecId}]
    /\ UNCHANGED <<store, discord, faults, restarts, dispatches, response, token, quote, closed, guild>>

\* a Confirm click that finds no guard for its order takes it
ConfirmAcquire(c, m, r) ==
    /\ Arrives(c, m)
    /\ discord[m].orderRecId \notin processing[r]
    /\ clicks' = [clicks EXCEPT ![c] = [ClickOf(m, "confirm", r) EXCEPT !.pc = "check"]]
    /\ processing' = [processing EXCEPT ![r] = @ \cup {discord[m].orderRecId}]
    /\ UNCHANGED <<store, discord, faults, restarts, dispatches, response, token, quote, closed, guild>>

\* an error of an awaited call ends the handler with the guard still held
Abort_held(c) ==
    /\ clicks' = [clicks EXCEPT ![c].pc = "done", ![c].failedAt = clicks[c].pc]
    /\ UNCHANGED processing

\* an error of an awaited call is passed over: the handler goes on to the
\* deactivations
Abort_goesOn(c) ==
    /\ clicks' = [clicks EXCEPT ![c].pc = "disableClicked", ![c].failedAt = clicks[c].pc]
    /\ UNCHANGED processing

\* an error of an awaited call ends the handler in its catch; the guard is released
Abort(c) ==
    /\ clicks' = [clicks EXCEPT ![c].pc = "done", ![c].failedAt = clicks[c].pc]
    /\ processing' = Released(c)

\* the idempotency read: with a Sales row for the order the click only closes
\* the order's messages, without one it commits the win
CheckSale(c, ok) ==
    /\ clicks[c].pc = "check"
    /\ IF ~ok THEN Abort(c)
       ELSE /\ clicks' = IF hasSaleForOrder(clicks[c].orderRecId)
                         THEN [clicks EXCEPT ![c].pc = "listAll", ![c].path = "prior"]
                         ELSE [clicks EXCEPT ![c].pc = "readInv", ![c].path = "win"]
            /\ UNCHANGED processing
    /\ Count("store", ok)
    /\ UNCHANGED <<store, discord, restarts, dispatches, response, token, quote, closed, guild>>

\* a commit that is put off: the handler goes on to the deactivations
ReadInventory_disableFirst(c, ok) ==
    /\ clicks[c].pc = "readInv"
    /\ IF ~ok THEN Abort(c)
       ELSE /\ clicks' = [clicks EXCEPT ![c].pc = "disableClicked"]
            /\ UNCHANGED processing
    /\ Count("store", ok)
    /\ UNCHANGED <<store, discord, restarts, dispatches, response, token, quote, closed, guild>>

\* createSaleAndDecrement, step 1: GET the Inventory record
ReadInventory(c, ok) ==
    /\ clicks[c].pc = "readInv"
    /\ IF ~ok THEN Abort(c)
       ELSE /\ clicks' = [clicks EXCEPT ![c].pc = "postSale",
                                        ![c].qtyRead = quantity[clicks[c].inventoryRecordId]]
            /\ UNCHANGED processing
    /\ Count("store", ok)
    /\ UNCHANGED <<store, discord, restarts, dispatches, response, token, quote, closed, guild>>

\* createSaleAndDecrement, step 3: POST the Sales row linked to the order
CreateSale(c, ok) ==
    /\ clicks[c].pc = "postSale"
    /\ IF ~ok THEN Abort(c) /\ UNCHANGED sales
       ELSE /\ sales' = sales \cup {SaleRow(c, clicks[c].orderRecId,
                                            clicks[c].inventoryRecordId, clicks[c].offerPrice)}
            /\ clicks' = [clicks EXCEPT ![c].pc = "patchQty"]
            /\ UNCHANGED processing
    /\ Count("store", ok)
    /\ UNCHANGED <<quantity, orderStatus, offerMsgs, discord, restarts, dispatches, response, token, quote, closed, guild>>

\* createSaleAndDecrement, step 4: PATCH Inventory.Quantity to the quantity read
\* in step 1 less one, not below zero
PatchQuantity(c, ok) ==
    /\ clicks[c].pc = "patchQty"
    /\ IF ~ok THEN Abort(c) /\ UNCHANGED quantity
       ELSE /\ quantity' = [quantity EXCEPT ![clicks[c].inventoryRecordId] =
                                DecrementedQty(clicks[c].qtyRead)]
            /\ clicks' = [clicks EXCEPT ![c].pc = "setMatched"]
            /\ UNCHANGED processing
    /\ Count("store", ok)
    /\ UNCHANGED <<sales, orderStatus, offerMsgs, discord, restarts, dispatches, response, token, quote, closed, guild>>

\* setOrderMatchedStatus: PATCH the order's Fulfillment Status to Matched (the
\* call fails when the PATCH and its retry with the plain string both fail)
SetOrderMatched(c, ok) ==
    /\ clicks[c].pc = "setMatched"
    /\ IF ~ok THEN Abort(c) /\ UNCHANGED orderStatus
       ELSE /\ orderStatus' = [orderStatus EXCEPT ![clicks[c].orderRecId] = "Matched"]
            /\ clicks' = [clicks EXCEPT ![c].pc = "disableClicked", ![c].committed = TRUE]
            /\ UNCHANGED processing
    /\ Count("store", ok)
    /\ UNCHANGED <<sales, quantity, offerMsgs, discord, restarts, dispatches, response, token, quote, closed, guild>>

\* the clicked message is disabled only when the registry lists it
DisableClicked_registered(c, ok) ==
    /\ clicks[c].pc = "disableClicked"
    /\ IF ~ok
       THEN /\ clicks' = [clicks EXCEPT ![c].pc = "done", ![c].failedAt = "disableClicked",
                                        ![c].tried = @ \cup {Clicked(c)}]
            /\ processing' = Released(c)
            /\ UNCHANGED discord
       ELSE /\ discord' = IF Clicked(c) \in listOfferMessagesForOrder(clicks[c].orderRecId)
                          THEN disableMessageButtonsGateway(discord, clicks[c].channelId,
                                                            clicks[c].messageId, "matched")
                          ELSE discord
            /\ clicks' = [clicks EXCEPT ![c].pc = "listOthers", ![c].tried = @ \cup {Clicked(c)}]
            /\ UNCHANGED processing
    /\ Count("discord", ok)
    /\ UNCHANGED <<store, restarts, dispatches, response, token, quote, closed, guild>>

\* the clicked message is disabled first, at the location the click came with;
\* an error of this call ends the handler in its catch
DisableClicked(c, ok) ==
    /\ clicks[c].pc = "disableClicked"
    /\ IF ~ok
       THEN /\ clicks' = [clicks EXCEPT ![c].pc = "done", ![c].failedAt = "disableClicked",
                                        ![c].tried = @ \cup {Clicked(c)}]
            /\ processing' = Released(c)
            /\ UNCHANGED discord
       ELSE /\ discord' = disableMessageButtonsGateway(discord, clicks[c].channelId,
                                                       clicks[c].messageId, "matched")
            /\ clicks' = [clicks EXCEPT ![c].pc = "listOthers", ![c].tried = @ \cup {Clicked(c)}]
            /\ UNCHANGED processing
    /\ Count("discord", ok)
    /\ UNCHANGED <<store, restarts, dispatches, response, token, quote, closed, guild>>

\* the messages a click is left to disable once the registry has answered: the
\* handler ends, and releases the guard, when there is none
Batch(c, todo) ==
    IF todo = {}
    THEN /\ clicks' = [clicks EXCEPT ![c].pc = "done", ![c].listed = TRUE]
         /\ processing' = Released(c)
    ELSE /\ clicks' = [clicks EXCEPT ![c].pc = "batch", ![c].listed = TRUE,
                                     ![c].batch = todo, ![c].pending = todo]
         /\ UNCHANGED processing

\* the winner that disables the clicked message only
Others_none(c) == {}

\* the entries of the registry the winner disables after the clicked message
Others(c) ==
    {e \in listOfferMessagesForOrder(clicks[c].orderRecId) :
        ~(e.channelId = clicks[c].channelId /\ e.messageId = clicks[c].messageId)}

\* the winner reads the registry and keeps every entry but the clicked message
ListOthers(c, ok) ==
    /\ clicks[c].pc = "listOthers"
    /\ IF ~ok THEN Abort(c) ELSE Batch(c, Others(c))
    /\ Count("store", ok)
    /\ UNCHANGED <<store, discord, restarts, dispatches, response, token, quote, closed, guild>>

\* a click that found the order already won reads the registry and keeps every entry
ListAll(c, ok) ==
    /\ clicks[c].pc = "listAll"
    /\ IF ~ok THEN Abort(c) ELSE Batch(c, listOfferMessagesForOrder(clicks[c].orderRecId))
    /\ Count("store", ok)
    /\ UNCHANGED <<store, discord, restarts, dispatches, response, token, quote, closed, guild>>

\* a batch that is given up at its first failed call
Settled_failFast(c, e, ok) == IF ok THEN clicks[c].pending \ {e} ELSE {}

\* what is left of the batch after the call for entry e settled
Settled(c, e, ok) == clicks[c].pending \ {e}

\* Promise.allSettled over disableMessageButtonsGateway: the calls settle in any
\* order, each on its own; the handler goes on when all have settled
DisableEntry(c, e, ok) ==
    /\ clicks[c].pc = "batch"
    /\ e \in clicks[c].pending
    /\ discord' = IF ok THEN disableMessageButtonsGateway(discord, e.channelId, e.messageId, "matched")
                  ELSE discord
    /\ IF Settled(c, e, ok) = {}
       THEN /\ clicks' = [clicks EXCEPT ![c].pc = "done", ![c].pending = {},
                                        ![c].tried = @ \cup {e}]
            /\ processing' = Released(c)
       ELSE /\ clicks' = [clicks EXCEPT ![c].pending = Settled(c, e, ok),
                                        ![c].tried = @ \cup {e}]
            /\ UNCHANGED processing
    /\ Count("discord", ok)
    /\ UNCHANGED <<store, restarts, dispatches, response, token, quote, closed, guild>>

----------------------------------------------------------------------------
(* server: POST /disable-offers *)

\* disableMessageButtonsGateway on every entry of a set: each one changes its
\* own message
DisableAll(msgs, entries, note) ==
    [m \in DOMAIN msgs |->
        IF [channelId |-> msgs[m].channelId, messageId |-> m] \in entries
        THEN disableMessageButtonsGateway(msgs, msgs[m].channelId, m, note)[m]
        ELSE msgs[m]]

\* the force-close that also sets the status of the order in the store
DisableOffers_closesOrder(o, reason, ok, dead) ==
    /\ o \in Orders
    /\ closed[o].calls < MaxCloses
    /\ IF ~ok
       THEN /\ dead = {}
            /\ UNCHANGED discord
            /\ closed' = [closed EXCEPT ![o] = [calls |-> @.calls + 1, status |-> 500,
                                                disabled |-> 0, failed |-> 0]]
            /\ Count("store", FALSE)
       ELSE /\ dead \subseteq listOfferMessagesForOrder(o)
            /\ Failed + Cardinality(dead) <= MaxFaults
            /\ discord' = DisableAll(discord, listOfferMessagesForOrder(o) \ dead, reason)
            /\ closed' = [closed EXCEPT ![o] =
                            [calls |-> @.calls + 1, status |-> 200,
                             disabled |-> Cardinality(listOfferMessagesForOrder(o)),
                             failed |-> Cardinality(dead)]]
            /\ faults' = [faults EXCEPT !.discord = @ + Cardinality(dead)]
    /\ orderStatus' = [orderStatus EXCEPT ![o] = "Processed External"]
    /\ UNCHANGED <<sales, quantity, offerMsgs, processing, clicks, restarts, dispatches,
                   response, token, quote, guild>>

\* the registry rows of the order are read and every listed message is disabled
\* with the reason; the calls of dead are the failed part of the allSettled
\* batch, which the answer does not tell from the others.  A failed read of the
\* registry answers 500
DisableOffers(o, reason, ok, dead) ==
    /\ o \in Orders
    /\ closed[o].calls < MaxCloses
    /\ IF ~ok
       THEN /\ dead = {}
            /\ UNCHANGED discord
            /\ closed' = [closed EXCEPT ![o] = [calls |-> @.calls + 1, status |-> 500,
                                                disabled |-> 0, failed |-> 0]]
            /\ Count("store", FALSE)
       ELSE /\ dead \subseteq listOfferMessagesForOrder(o)
            /\ Failed + Cardinality(dead) <= MaxFaults
            /\ discord' = DisableAll(discord, listOfferMessagesForOrder(o) \ dead, reason)
            /\ closed' = [closed EXCEPT ![o] =
                            [calls |-> @.calls + 1, status |-> 200,
                             disabled |-> Cardinality(listOfferMessagesForOrder(o)),
                             failed |-> Cardinality(dead)]]
            /\ faults' = [faults EXCEPT !.discord = @ + Cardinality(dead)]
    /\ UNCHANGED <<store, processing, clicks, restarts, dispatches, response, token, quote,
                   guild>>

----------------------------------------------------------------------------
(* the process *)

\* restarts of all processes
RECURSIVE SumOf(_, _)
SumOf(f, S) == IF S = {} THEN 0
               ELSE LET x == CHOOSE y \in S : TRUE IN f[x] + SumOf(f, S \ {x})

Restarted == SumOf(restarts, Replicas)

\* a restart of process r: its guard set is gone and so are its handlers in flight
Restart(r) ==
    /\ Restarted < MaxRestarts
    /\ restarts' = [restarts EXCEPT ![r] = @ + 1]
    /\ processing' = [processing EXCEPT ![r] = {}]
    /\ clicks' = [c \in 1..MaxClicks |->
                    IF InFlight(c) /\ clicks[c].rep = r
                    THEN [clicks[c] EXCEPT !.pc = "killed", !.failedAt = "killed"]
                    ELSE clicks[c]]
    /\ UNCHANGED <<store, discord, faults, dispatches, response, token, quote, closed, guild>>

----------------------------------------------------------------------------
(* Specifications *)

\* the POST /offers requests of the race: an order goes to both sellers, and the
\* Offer Messages write may fail
OffersOfRace ==
    \E o \in Orders, out \in [1..2 -> {"ok", "logFail"}] : PostOffers(o, <<"s1", "s2">>, out)

\* the processes a click may reach: the one that gets the first click is called r1
ProcessesOf(c) == IF c = 1 THEN {"r1"} ELSE Replicas

Clicks ==
    \/ \E c \in 1..MaxClicks, m \in DOMAIN discord : \E r \in ProcessesOf(c) :
         \/ \E ok \in Answers : DenyClick(c, m, r, ok)
         \/ \E ok \in Answers : ConfirmWhileProcessing(c, m, r, ok)
         \/ ConfirmAcquire(c, m, r)
    \/ \E c \in 1..MaxClicks, ok \in Answers :
         \/ CheckSale(c, ok)
         \/ ReadInventory(c, ok)
         \/ CreateSale(c, ok)
         \/ PatchQuantity(c, ok)
         \/ SetOrderMatched(c, ok)
         \/ DisableClicked(c, ok)
         \/ ListOthers(c, ok)
         \/ ListAll(c, ok)
         \/ \E e \in clicks[c].pending : DisableEntry(c, e, ok)

\* the confirmation race: offers are posted and clicks are resolved
Next ==
    \/ OffersOfRace
    \/ Clicks

Spec == Init /\ [][Next]_vars

\* the race with process restarts
NextRestart ==
    \/ OffersOfRace
    \/ Clicks
    \/ \E r \in Replicas : Restart(r)

SpecRestart == Init /\ [][NextRestart]_vars

\* POST /disable-offers for an order, with a reason
ForceClose ==
    \E o \in Orders, reason \in Reasons, ok \in Answers :
        \E dead \in SUBSET listOfferMessagesForOrder(o) : DisableOffers(o, reason, ok, dead)

\* the POST /offers requests before a force-close: an order goes to both sellers
OffersOfClose ==
    \E o \in Orders : PostOffers(o, <<"s1", "s2">>, <<"ok", "ok">>)

\* one click, Confirm or Deny, resolved while orders are force-closed
ClickOfClose ==
    \/ \E m \in DOMAIN discord :
         \/ \E ok \in Answers : DenyClick(1, m, "r1", ok)
         \/ ConfirmAcquire(1, m, "r1")
    \/ \E ok \in Answers :
         \/ CheckSale(1, ok)
         \/ ReadInventory(1, ok)
         \/ CreateSale(1, ok)
         \/ PatchQuantity(1, ok)
         \/ SetOrderMatched(1, ok)
         \/ DisableClicked(1, ok)
         \/ ListOthers(1, ok)
         \/ ListAll(1, ok)
         \/ \E e \in clicks[1].pending : DisableEntry(1, e, ok)

\* dispatches, a click and force-close calls
NextClose ==
    \/ OffersOfClose
    \/ ClickOfClose
    \/ ForceClose

SpecClose == Init /\ [][NextClose]_vars

\* channel resolutions of one process on one guild
NextGuild ==
    \/ \E cfg \in Configs, chans \in GuildLayouts : StartGateway(cfg, chans)
    \/ \E name \in SellerNames, confirms \in BOOLEAN : SendToSeller(name, confirms)

SpecGuild == Init /\ [][NextGuild]_vars

\* calls of getChannelIdForSeller from requests served at the same time, each
\* going on at the answers to its own requests
NextResolve ==
    \/ \E cfg \in Configs, chans \in GuildLayouts : StartGateway(cfg, chans)
    \/ \E p \in Resolvers, name \in SellerNames, kind \in {"confirm", "offer"} :
         BeginResolve(p, name, kind)
    \/ \E p \in Resolvers : ListGuildChannels(p)
    \/ \E p \in Resolvers : CreateCategory(p)
    \/ \E p \in Resolvers : CreateTextChannel(p)

SpecResolve == Init /\ [][NextResolve]_vars

\* the price decision over every seller and order
NextPrice == \E q \in QuoteInputs : SendQuote(q)

SpecPrice == Init /\ [][NextPrice]_vars

\* a button identifier from the gateway to the handler
NextToken ==
    \/ \E f \in TokenFields : BuildToken(f)
    \/ ReceiveToken
    \/ HandleToken
    \/ \E v \in {"MARGIN", "VAT21", "VAT0", ""}, k \in {"Netherlands", "Belgium", ""} : CommitToken(v, k)

SpecToken == Init /\ [][NextToken]_vars

\* the fan-out alone, over every request body and every outcome per seller
NextOffers ==
    \E o \in OrderIds, ss \in SellerLists :
        \E out \in [1..Len(ss) -> Outcomes] : PostOffers(o, ss, out)

SpecOffers == Init /\ [][NextOffers]_vars

----------------------------------------------------------------------------
(* Properties *)

\* the clicks delivered so far
Delivered == {c \in 1..MaxClicks : clicks[c].pc # "new"}

\* the Confirm clicks delivered for an order
ConfirmsOn(o) == {c \in Delivered : clicks[c].action = "confirm" /\ clicks[c].orderRecId = o}

\* the registry entries of an order, read off the Offer Messages rows
RegistryOf(o) ==
    {[channelId |-> row.channelId, messageId |-> row.messageId] :
        row \in {x \in offerMsgs : x.orderRecId = o}}

\* two or more Confirm clicks of distinct sellers on order o, and no other
\* click, have been delivered and have all finished
Race(o) ==
    /\ Delivered = ConfirmsOn(o)
    /\ Cardinality(Delivered) >= 2
    /\ \A c \in Delivered : clicks[c].pc = "done"
    /\ \A c, d \in Delivered : c # d => clicks[c].sellerId # clicks[d].sellerId

\* the clicks of a set were all handled by one process
SameProcess(K) == \A c, d \in K : clicks[c].rep = clicks[d].rep

\* the stock taken off all inventory units since the start
TotalDecrement == SumOf([u \in Units |-> InitialQuantity[u] - quantity[u]], Units)

\* the order was fanned out once: every seller has one message for it
DispatchedOnce(o) == \A m \in DOMAIN discord : discord[m].orderRecId = o => m[3] = 0

C2_Steps(c) ==
    LET o == clicks[c].orderRecId
        keeps == UNCHANGED <<sales, quantity, orderStatus>>
    IN  /\ (clicks[c].pc = "check" /\ clicks'[c].pc \notin {"check", "done", "killed"}
                /\ SalesFor(o) # {})
            => clicks'[c].pc = "listAll" /\ clicks'[c].path = "prior" /\ keeps
        /\ (clicks[c].path = "prior" /\ clicks'[c] # clicks[c]) => keeps
        /\ (clicks[c].pc = "listAll" /\ clicks'[c].listed)
            => clicks'[c].batch = RegistryOf(o)

C5_AbortLeavesNoWinEffect ==
    \A c \in 1..MaxClicks :
        clicks[c].failedAt \in {"readInv", "postSale", "patchQty", "setMatched"}
            => /\ \A row \in sales : row.id # c
               /\ ~clicks[c].committed

C8_SiblingFailureIsIsolated ==
    /\ [](\A c \in 1..MaxClicks :
            clicks[c].path = "win" /\ clicks[c].pc = "done" /\ clicks[c].listed
                => clicks[c].batch \subseteq clicks[c].tried)
    /\ [][\A c \in 1..MaxClicks :
            (clicks[c].pc = "batch" /\ clicks[c].path = "win"
                /\ clicks'[c] # clicks[c] /\ clicks'[c].pc # "killed")
            => UNCHANGED <<sales, quantity, orderStatus>>]_vars

\* a winner ended with one sibling message still active after its failed call
\* and another one disabled
C8_Witness ==
    \E c \in 1..MaxClicks :
        /\ clicks[c].path = "win" /\ clicks[c].pc = "done" /\ clicks[c].listed
        /\ clicks[c].committed
        /\ clicks[c].batch \subseteq clicks[c].tried
        /\ \E e, f \in clicks[c].batch :
             /\ ~discord[e.messageId].disabled
             /\ discord[f.messageId].disabled /\ discord[f.messageId].note = "matched"
        /\ faults.discord = 1

\* C9: a click carries the fields of the clicked message's buttons and the
\* message's location however often its process has restarted; a restart
\* writes nothing to the store or to Discord, and the guard of a process that
\* has no click in flight is the same after a restart as before
C9_RestartKeepsClickOutcome ==
    /\ [](\A c \in Delivered :
            LET msg == discord[clicks[c].messageId]
            IN  /\ clicks[c].orderRecId = msg.orderRecId
                /\ clicks[c].sellerId = msg.sellerId
                /\ clicks[c].inventoryRecordId = msg.inventoryRecordId
                /\ clicks[c].offerPrice = msg.offerPrice
                /\ clicks[c].channelId = msg.channelId)
    /\ [][restarts' # restarts
            => /\ UNCHANGED <<store, discord>>
               /\ \A r \in Replicas :
                    (\A c \in 1..MaxClicks : InFlight(c) => clicks[c].rep # r)
                        => processing'[r] = processing[r]]_vars

\* a process handled a click, restarted with no click in flight, and then
\* committed the win of a click on a message posted before
C9_Witness ==
    \E c, d \in 1..MaxClicks :
        /\ clicks[c].rep = clicks[d].rep
        /\ clicks[c].born = 0 /\ clicks[c].pc = "done" /\ clicks[c].action = "deny"
        /\ clicks[d].born = 1 /\ clicks[d].pc = "done" /\ clicks[d].committed
        /\ clicks[d].offerPrice = discord[clicks[d].messageId].offerPrice

\* C10 as stated: a POST /offers request has written as many registry rows as
\* it has posted messages
C10_LoggedEqualsPosted ==
    \A o \in OrderIds :
        response[o].status # 0 => response[o].logged = response[o].posted

\* C10 amended: the registry rows written by a POST /offers request and the
\* registry writes that failed in it add up to the messages it posted
C10_LoggedPlusFailedEqualsPosted ==
    \A o \in OrderIds :
        response[o].status # 0
            => response[o].logged + response[o].logFailed = response[o].posted

\* a request posted to two sellers and lost the registry row of one
C10_Witness ==
    \E o \in Orders :
        /\ response[o].status = 200 /\ response[o].sentCount = 2
        /\ response[o].posted = 2 /\ response[o].logged = 1
        /\ response[o].logFailed = 1

\* the registry rows of order o, read off the Offer Messages rows of the next state
RegistryOfNext(o) ==
    {[channelId |-> row.channelId, messageId |-> row.messageId] :
        row \in {x \in offerMsgs' : x.orderRecId = o}}

\* C11 as stated: in a POST /offers request every seller whose own post and
\* registry write would succeed gets a new message that is registered for the
\* order, whatever happened to the sellers before it
C11_SellerFailureIsIsolated ==
    [][\A o \in Orders, ss \in SellerLists :
         \A out \in [1..Len(ss) -> Outcomes] :
            PostOffers(o, ss, out)
            => \A i \in DOMAIN ss :
                 out[i] = "ok"
                 => \E m \in DOMAIN discord' \ DOMAIN discord :
                      /\ discord'[m].sellerId = ss[i]
                      /\ [channelId |-> discord'[m].channelId, messageId |-> m]
                            \in RegistryOfNext(o)]_vars

\* C12: a POST /offers request without an order id or without sellers is
\* answered 400 and posts no message and writes no registry row
C12_InvalidRequestRejected ==
    [][\A o \in OrderIds, ss \in SellerLists :
         \A out \in [1..Len(ss) -> Outcomes] :
            ((o = "" \/ ss = <<>>) /\ PostOffers(o, ss, out))
            => /\ UNCHANGED <<discord, offerMsgs, sales, quantity, orderStatus>>
               /\ response'[o].status = 400
               /\ response'[o].sentCount = 0]_vars

\* a request without an order id and a request without sellers were rejected,
\* and nothing was posted or registered
C12_Witness ==
    /\ response[""].status = 400 /\ response[""].asked > 0
    /\ \E o \in Orders : response[o].status = 400 /\ response[o].asked = 0
    /\ discord = <<>>
    /\ offerMsgs = {}

\* C13 as stated: the answer of a POST /offers request that passed validation
\* lists one entry per posted seller, sentCount counts them, and the sellers of
\* the request that are not listed are the sellers whose post failed
C13_ResultAccountsForEverySeller ==
    \A o \in Orders :
        response[o].status \in {200, 500}
            => /\ response[o].sentCount = Len(response[o].sent)
               /\ response[o].sentCount = response[o].posted
               /\ response[o].sentCount + response[o].threw = response[o].asked

\* the messages whose buttons are disabled, now and in the next state
Disabled == {m \in DOMAIN discord : discord[m].disabled}

DisabledNext == {m \in DOMAIN discord' : discord'[m].disabled}

\* the registry entries of all orders
AllEntries == UNION {RegistryOf(o) : o \in Orders}

\* C14: a POST /disable-offers for an order whose registry read succeeds calls
\* the deactivation on every registry entry of the order, leaves every entry
\* whose call succeeded disabled with the given reason, and changes no message
\* of another order
C14_ForceCloseDeactivatesOrderOnly ==
    [][\A o \in Orders, reason \in Reasons, dead \in SUBSET AllEntries :
         DisableOffers(o, reason, TRUE, dead)
         => /\ dead \subseteq RegistryOf(o)
            /\ closed'[o].disabled = Cardinality(RegistryOf(o))
            /\ \A e \in RegistryOf(o) \ dead :
                 /\ discord'[e.messageId].disabled
                 /\ discord'[e.messageId].note = reason
            /\ \A m \in DOMAIN discord :
                 discord[m].orderRecId # o => discord'[m] = discord[m]]_vars

\* an order was force-closed with a reason while the messages of the other
\* order stayed active
C14_Witness ==
    \E o, p \in Orders :
        /\ o # p
        /\ closed[o].status = 200 /\ closed[o].disabled >= 2 /\ closed[o].failed = 0
        /\ \A e \in RegistryOf(o) :
             discord[e.messageId].disabled /\ discord[e.messageId].note = "Processed External"
        /\ RegistryOf(p) # {}
        /\ \A e \in RegistryOf(p) : ~discord[e.messageId].disabled

\* C15 as stated: a POST /disable-offers for an order that was force-closed
\* before, with the same registry, is answered 200, writes nothing to the store
\* and leaves the set of disabled messages as it was
C15_SecondForceCloseChangesNothing ==
    [][\A o \in Orders, reason \in Reasons, dead \in SUBSET AllEntries :
         (/\ closed[o].status = 200
          /\ closed[o].disabled = Cardinality(RegistryOf(o))
          /\ DisableOffers(o, reason, TRUE, dead))
         => /\ closed'[o].status = 200
            /\ UNCHANGED store
            /\ DisabledNext = Disabled]_vars

\* C15 amended: the same, when no deactivation call of the earlier request failed
C15_SecondForceCloseAfterCleanFirst ==
    [][\A o \in Orders, reason \in Reasons, dead \in SUBSET AllEntries :
         (/\ closed[o].status = 200
          /\ closed[o].failed = 0
          /\ closed[o].disabled = Cardinality(RegistryOf(o))
          /\ DisableOffers(o, reason, TRUE, dead))
         => /\ closed'[o].status = 200
            /\ UNCHANGED store
            /\ DisabledNext = Disabled]_vars

\* an order was force-closed twice without any failed deactivation
C15_Witness ==
    \E o \in Orders :
        /\ closed[o].calls = 2 /\ closed[o].status = 200
        /\ closed[o].disabled >= 2
        /\ closed[o].disabled = Cardinality(RegistryOf(o))
        /\ faults.discord = 0
        /\ \A e \in RegistryOf(o) : discord[e.messageId].disabled

\* C16: no step of a dispatch, a click or a force-close removes or changes a
\* row of the Offer Messages table
C16_RegistryAppendOnly ==
    [][offerMsgs \subseteq offerMsgs']_vars

\* an order was dispatched twice, won by a click and force-closed, and its four
\* registry rows are there
C16_Witness ==
    \E o \in Orders :
        /\ Cardinality(RegistryOf(o)) = 4
        /\ closed[o].status = 200
        /\ SalesFor(o) # {}
        /\ clicks[1].pc = "done" /\ clicks[1].listed

\* C17: the registry read of an order returns the entries of all rows written
\* for the order, in every state and whatever process asks; a click that lists
\* the registry, on a process that has restarted or not, gets every entry of
\* its order (the winner leaves out the message it was clicked on)
C17_RegistryQueryReadsStore ==
    /\ [](\A o \in Orders : listOfferMessagesForOrder(o) = RegistryOf(o))
    /\ [][\A c \in 1..MaxClicks :
            (clicks[c].pc \in {"listOthers", "listAll"} /\ clicks'[c].listed)
            => clicks'[c].batch =
                  IF clicks[c].pc = "listAll" THEN RegistryOf(clicks[c].orderRecId)
                  ELSE RegistryOf(clicks[c].orderRecId) \ {Clicked(c)}]_vars

\* a click delivered to a process after its restart listed the three other
\* messages of an order that was dispatched twice
C17_Witness ==
    \E c \in 1..MaxClicks :
        /\ clicks[c].born = 1 /\ clicks[c].listed /\ clicks[c].path = "win"
        /\ Cardinality(clicks[c].batch) = 3
        /\ clicks[c].batch = RegistryOf(clicks[c].orderRecId) \ {Clicked(c)}

\* a string without the delimiter
NoBar(s) == \A i \in DOMAIN s : s[i] # "|"

\* an identifier that does not have exactly five fields or whose fifth field
\* is not a number
Malformed(id) ==
    \/ Len(Split(id)) # 5
    \/ ~IsNum(ParseNum(Split(id)[5]))

\* C18: a button identifier built from an action, ids without "|" and a
\* numeric price is decoded to the same five fields
C18_TokenRoundTrip ==
    (/\ token.stage \in {"decoded", "handled"}
     /\ NoBar(token.fields.orderRecId) /\ NoBar(token.fields.sellerId)
     /\ NoBar(token.fields.inventoryRecordId)
     /\ IsNum(token.fields.offerPrice))
    => /\ token.decoded = token.fields
       /\ Len(Split(token.customId)) = 5

\* the identifier confirm|a|ab|a|90.05 came back as the fields it was built from
C18_Witness ==
    /\ token.stage = "decoded"
    /\ token.customId = <<"confirm", "|", "a", "|", "a", "a", "|", "a", "|", "9", "0", ".", "0", "5">>
    /\ token.fields.offerPrice = Num(900500)
    /\ token.decoded = token.fields

\* C19 as stated: an identifier that does not have exactly five fields, or
\* whose price is not a number, takes the handler into neither its confirm nor
\* its deny branch
C19_MalformedTokenIsRejected ==
    (token.stage = "handled" /\ Malformed(token.customId)) => token.branch = "none"

\* C20 as stated: for the Margin and the Standard regime the decision is
\* Confirm exactly when ask <= ceiling, equality included, and the decided
\* price is the ask when confirming and the ceiling when counter-offering
C20_MarginStandardDecision ==
    (quote.stage = "decided" /\ quote.input.vatType \in {"MARGIN", "VAT21"})
    => /\ quote.decision.confirmCase <=> LessEq(quote.input.suggested, quote.input.max)
       /\ quote.decision.offerPrice =
              IF quote.decision.confirmCase THEN quote.input.suggested ELSE quote.input.max

\* a zero-rated seller in the buyer's own jurisdiction
Domestic(q) == q.vatType = "VAT0" /\ isNL(q.sellerCountry) /\ isNL(q.clientCountry)

\* a zero-rated seller in another jurisdiction than the buyer's
CrossBorder(q) == q.vatType = "VAT0" /\ ~(isNL(q.sellerCountry) /\ isNL(q.clientCountry))

SameAmount(x, y) == Finite(x) /\ Finite(y) /\ x.n * y.d = y.n * x.d

\* the ask with the buyer's VAT on top
GrossAsk(q) == [n |-> q.suggested.n * (100 + pct(q.clientVatRate)), d |-> 100, e |-> 0]

\* C22 as stated: when the offer of a zero-rated seller in the buyer's
\* jurisdiction confirms, the price shown to the seller and the price carried
\* by the buttons are both the ask times (1 + buyer VAT rate)
C22_DomesticConfirmCarriesGrossAsk ==
    (quote.stage = "decided" /\ Domestic(quote.input) /\ quote.decision.confirmCase)
    => /\ SameAmount(quote.decision.yourDisplay, GrossAsk(quote.input))
       /\ SameAmount(quote.decision.buttonPrice, GrossAsk(quote.input))

\* C23 as stated: for a zero-rated seller in another jurisdiction the decision
\* is Confirm exactly when ask <= ceiling / (1 + buyer VAT rate), and the price
\* of a counter-offer is ceiling / (1 + buyer VAT rate)
C23_CrossBorderZeroRatedDecision ==
    (/\ quote.stage = "decided" /\ CrossBorder(quote.input)
     /\ Finite(quote.input.suggested) /\ Finite(quote.input.max))
    => /\ quote.decision.confirmCase
            <=> quote.input.suggested.n * (100 + pct(quote.input.clientVatRate))
                   <= quote.input.max.n * 100
       /\ ~quote.decision.confirmCase
            => quote.decision.offerPrice.n * (100 + pct(quote.input.clientVatRate))
                   = quote.input.max.n * 100 * quote.decision.offerPrice.d

\* C24: with creation enabled, two resolutions for the same seller identity and
\* kind return the same channel, and the later one creates nothing
C24_ResolveIsGetOrCreate ==
    (guild.stage = "ready" /\ guild.cfg.allowCreate)
    => \A i, j \in DOMAIN guild.calls :
           (/\ i < j
            /\ guild.calls[i].seller = guild.calls[j].seller
            /\ guild.calls[i].kind = guild.calls[j].kind
            /\ guild.calls[i].outcome = "ok")
           => /\ guild.calls[j].outcome = "ok"
              /\ guild.calls[j].channelId = guild.calls[i].channelId
              /\ guild.calls[j].created = 0

\* a first resolution created the category and the channel, the next one for
\* the same seller and kind returned that channel and created nothing
C24_Witness ==
    /\ guild.stage = "ready" /\ guild.cfg.allowCreate /\ guild.cfg.guildId
    /\ Len(guild.calls) >= 2
    /\ guild.calls[1].seller = guild.calls[2].seller
    /\ guild.calls[1].kind = guild.calls[2].kind
    /\ guild.calls[1].created = 2
    /\ guild.calls[2].created = 0
    /\ guild.calls[2].channelId = guild.calls[1].channelId

\* the channel a message went to is the one named for its decision under a
\* category whose name is the seller identity up to case
PostedUnderSellerCategory(call) ==
    \E ch, cat \in guild.chans :
        /\ ch.id = call.channelId
        /\ ch.type = 0
        /\ ch.name = IF call.confirmCase THEN "confirmation-requests" ELSE "offer-requests"
        /\ ch.parent_id = cat.id
        /\ cat.type = 4
        /\ ToLower(Trim(cat.name)) = ToLower(Trim(call.seller))

\* C25 as stated: a message whose decision is Confirm goes to the channel named
\* confirmation-requests and a counter-offer to the channel named
\* offer-requests, under the category whose name is the seller identity up to
\* case
C25_PostedToKindChannel ==
    guild.stage = "ready"
    => \A i \in DOMAIN guild.calls :
           guild.calls[i].outcome = "ok" => PostedUnderSellerCategory(guild.calls[i])

\* C25 amended: the same when a guild is configured; without one every message
\* goes to the one fallback channel
C25_PostedUnderSellerCategory ==
    guild.stage = "ready"
    => \A i \in DOMAIN guild.calls :
           guild.calls[i].outcome = "ok"
           => IF guild.cfg.guildId THEN PostedUnderSellerCategory(guild.calls[i])
              ELSE guild.calls[i].channelId = FallbackChannelId

\* a Confirm for seller Alice went to the existing channel under the category
\* ALICE and a counter-offer for Alice to a channel created there
C25_Witness ==
    /\ guild.stage = "ready" /\ guild.cfg.guildId
    /\ Category(3, "ALICE") \in guild.chans
    /\ \E i, j \in DOMAIN guild.calls :
           /\ guild.calls[i].seller = "Alice" /\ guild.calls[i].confirmCase
           /\ guild.calls[i].outcome = "ok" /\ guild.calls[i].created = 1
           /\ TextChannel(guild.calls[i].channelId, "confirmation-requests", 3) \in guild.chans
           /\ guild.calls[j].seller = "Alice" /\ ~guild.calls[j].confirmCase
           /\ guild.calls[j].outcome = "ok"
           /\ TextChannel(guild.calls[j].channelId, "offer-requests", 3) \in guild.chans

\* a click in progress in process r for order o
Holder(c, r, o) == InFlight(c) /\ clicks[c].rep = r /\ clicks[c].orderRecId = o

CommitSteps == {"check", "readInv", "postSale", "patchQty", "setMatched"}

\* C31: a Confirm click whose commit failed with an error has ended and has
\* called no deactivation, and the step that failed changed no message
C31_FailedCommitDeactivatesNothing ==
    /\ [](\A c \in 1..MaxClicks :
              clicks[c].failedAt \in CommitSteps
              => clicks[c].pc = "done" /\ clicks[c].tried = {})
    /\ [][\A c \in 1..MaxClicks :
            (clicks[c].failedAt = "none" /\ clicks'[c].failedAt \in CommitSteps)
            => discord' = discord]_vars

\* the commit of a click failed at the stock update, both messages of the order
\* were still active, and the same message was clicked again
C31_Witness ==
    /\ clicks[1].failedAt = "patchQty" /\ clicks[1].pc = "done"
    /\ clicks[2].pc # "new" /\ clicks[2].action = "confirm"
    /\ clicks[2].messageId = clicks[1].messageId
    /\ \A m \in DOMAIN discord : ~discord[m].disabled
    /\ Cardinality(DOMAIN discord) >= 2

\* C32 as stated: a winner whose deactivation of the clicked message failed has
\* still called the deactivation on every other registry entry of the order
C32_ClickedFailureKeepsBatch ==
    \A c \in 1..MaxClicks :
        (/\ clicks[c].path = "win" /\ clicks[c].committed /\ clicks[c].pc = "done"
         /\ clicks[c].failedAt = "disableClicked")
        => Others(c) \subseteq clicks[c].tried

\* the clicks that committed a sale of inventory unit u
Winners(u) == {c \in 1..MaxClicks : clicks[c].committed /\ clicks[c].inventoryRecordId = u}

\* C33 as stated: when every click has ended without an error and k clicks on
\* k different orders have won with the same inventory unit of initial
\* quantity q >= k, the quantity of the unit is q - k
C33_EachSaleDecrementsByOne ==
    \A u \in Units :
        (/\ \A c \in 1..MaxClicks : clicks[c].pc \in {"new", "done"} /\ clicks[c].failedAt = "none"
         /\ \A c, d \in Winners(u) : c # d => clicks[c].orderRecId # clicks[d].orderRecId
         /\ InitialQuantity[u] >= Cardinality(Winners(u)))
        => quantity[u] = InitialQuantity[u] - Cardinality(Winners(u))

\* C34 as stated: the Sales row of a winning Confirm click carries as final
\* price the price of the click token rounded to two decimals, whatever the VAT
\* type and the seller country of the inventory record
C34_FinalPriceIsTokenPrice ==
    (token.stage = "sold" /\ IsNum(token.decoded.offerPrice))
    => token.sale.finalPrice = Num(round2(token.decoded.offerPrice.num))

\* C35 as stated: a message posted for a seller whose ceiling is a number (the
\* dispatcher skips the others) carries in its buttons the decided price of that
\* seller, a finite number, and never a 0 that stands for a price not decided
C35_PostedTokenCarriesDecidedPrice ==
    (quote.stage = "decided" /\ Finite(quote.input.max))
    => /\ quote.decision.offerPrice # Null
       /\ Finite(quote.decision.buttonPrice)
       /\ quote.decision.buttonPrice = quote.decision.offerPrice

\* C36: every registry row names a message that was posted, in the channel it
\* was posted to and for the order it was posted for, and a row is written only
\* in the request that posted its message
C36_RegistryRowsArePosted ==
    /\ [](\A row \in offerMsgs :
            /\ row.messageId \in DOMAIN discord
            /\ discord[row.messageId].channelId = row.channelId
            /\ discord[row.messageId].orderRecId = row.orderRecId)
    /\ [][\A row \in offerMsgs' \ offerMsgs :
            row.messageId \in DOMAIN discord' \ DOMAIN discord]_vars

\* a request posted to its first seller and registered the message, and the post
\* to its second seller failed: one message, one row, and the row names it
C36_Witness ==
    \E o \in Orders :
        /\ response[o].status = 500 /\ response[o].asked = 2
        /\ response[o].posted = 1 /\ response[o].logged = 1
        /\ \E row \in offerMsgs : row.orderRecId = o /\ row.messageId \in DOMAIN discord

\* C37: a POST /disable-offers call, whether its registry read fails or succeeds
\* and whichever of its deactivation calls fail, leaves the Sales rows, the
\* quantities, the order statuses and the Offer Messages rows as they were
C37_ForceCloseWritesNothing ==
    [][\A o \in Orders :
         closed'[o].calls = closed[o].calls + 1
         => /\ sales' = sales
            /\ quantity' = quantity
            /\ orderStatus' = orderStatus
            /\ offerMsgs' = offerMsgs]_vars

\* an open order with two registered messages was force-closed, one
\* deactivation call failed, and the store holds no sale and the first stock
C37_Witness ==
    \E o \in Orders :
        /\ closed[o].status = 200 /\ closed[o].disabled = 2 /\ closed[o].failed = 1
        /\ Cardinality(RegistryOf(o)) = 2
        /\ sales = {}
        /\ quantity = InitialQuantity
        /\ orderStatus[o] = "Open"

\* C39: the quantity of no inventory unit is ever below zero, and the commit of
\* a winning Confirm click that read the quantity 0 writes 0
C39_StockNeverNegative ==
    /\ [](\A u \in Units : quantity[u] >= 0)
    /\ [][\A c \in 1..MaxClicks :
            (/\ clicks[c].pc = "patchQty" /\ clicks'[c].pc = "setMatched"
             /\ clicks[c].qtyRead = 0)
            => quantity'[clicks[c].inventoryRecordId] = 0]_vars

\* a unit with quantity 0 was sold by a winning click and its quantity is 0
C39_Witness ==
    \E c \in 1..MaxClicks :
        /\ clicks[c].pc = "done" /\ clicks[c].committed /\ clicks[c].path = "win"
        /\ clicks[c].qtyRead = 0
        /\ InitialQuantity[clicks[c].inventoryRecordId] = 0
        /\ \E row \in sales : row.inventoryRecordId = clicks[c].inventoryRecordId
        /\ quantity[clicks[c].inventoryRecordId] = 0

\* the categories of the guild for the identity of a category
SameIdentity(chans, cat) == {c \in chans : c.type = 4 /\ ToLower(Trim(c.name)) = ToLower(Trim(cat.name))}

\* the text channels of the guild with the name and the parent of a channel
SameKind(chans, ch) == {c \in chans : c.type = 0 /\ c.parent_id = ch.parent_id /\ c.name = ch.name}

\* C38 as stated: while creation is enabled, no step of a channel resolution,
\* however the resolutions interleave, gives a seller identity a second category
\* or a category a second channel of the same kind
C38_OneCategoryOneChannelPerKind ==
    [][(guild.stage = "ready" /\ guild'.stage = "ready" /\ guild.cfg.allowCreate)
       => \A c \in guild'.chans \ guild.chans :
            /\ c.type = 4 => SameIdentity(guild'.chans, c) = {c}
            /\ c.type = 0 => SameKind(guild'.chans, c) = {c}]_vars

====
